---------------------------- MODULE Spec2Model ----------------------------
(***************************************************************************)
(* Progressive, chunked ray tracer (franckv/raytracer).                    *)
(*                                                                         *)
(* The model covers the image buffer with its three chunk strategies       *)
(* (src/raytracer/buffer.rs) and the Tracer's per-frame driver             *)
(* update() / update_buffer() (src/raytracer/tracer.rs).  One call of      *)
(* update() is a sequence of steps, one per statement of the code, so      *)
(* that the order of the reset, the reads of is_complete(), the requests   *)
(* of chunks, the parallel chunk tasks and the merge can be observed.      *)
(*                                                                         *)
(* A Color is a natural number, BLACK is 0.  For the driver the shading   *)
(* of one pixel is abstracted to a function of the pixel index and of the  *)
(* state of the chunk's random pool.                                       *)
(*                                                                         *)
(* Tracer::cast and TracerBuilder have specifications of their own         *)
(* (CastSpec, BuilderSpec): one top-level call of cast() with its nested   *)
(* calls, and one chain of builder calls ended by build().                 *)
(***************************************************************************)
EXTENDS Integers, Sequences, FiniteSets, TLC

(***************************************************************************)
(* Bounds of the model.                                                    *)
(***************************************************************************)
\* small extents are 0..MaxW by 0..MaxH
MaxW == 2
MaxH == 2
\* n_threads ranges over 0..MaxThreads
MaxThreads == 2
\* states of a chunk's random pool: 0..MaxSeed
MaxSeed == 1
\* a shuffle of at most MaxShuffle elements may yield any permutation; of a
\* longer sequence it yields one of its rotations by 0..MaxShuffle places
MaxShuffle == 3
\* the history variable counting update() calls saturates at MaxUpdates
MaxUpdates == 3

(***************************************************************************)
(* Program constants.                                                      *)
(***************************************************************************)
RandomChunk_PIXEL_PER_CHUNK == 20000
LineChunk_PIXEL_PER_CHUNK == 1920
BOX_WIDTH == 128
BOX_HEIGHT == 128
BLACK == 0

VARIABLES
    \* ImageBuffer
    extent,         \* [width, height]
    framebuffer,    \* sequence of colors; index idx of the code is idx + 1
    strategy,       \* ChunkStrategyData: a record tagged RANDOM, LINE or BOX
    \* Tracer
    n_threads,
    changed,        \* the dirty flag
    timer,          \* number of times the timer was restarted
    \* the running update() call
    pc,             \* position of the calling thread
    result,         \* local `result` of update()
    k,              \* iterations done of the request loop 0..n_threads
    chunks,         \* local `chunks` of update_buffer()
    tasks,          \* per chunk: "pending", "running" or "done"
    results,        \* local `results` of update_buffer()
    m,              \* next result to merge
    ret,            \* value the last update() call returned (if updates >= 1)
    \* history variables
    was_reset,      \* ImageBuffer::reset() was called at least once
    last_op,        \* last operation on the image buffer
    last_chunk,     \* the chunk get_chunk() last returned
    reset_prior,    \* state of the strategy when reset() was last called
    pass_chunks,    \* chunks delivered since the last reset, in order
    entry,          \* snapshot taken when update() was last entered
    round_remaining,\* chunks undelivered when the round started
    updates,        \* update() calls returned, saturating at MaxUpdates
    host_reset,     \* the host called Tracer::reset() itself
    written,        \* indices update_pixel() wrote since the last reset, in order
    \* one top-level call of Tracer::cast
    scene,          \* [models, n_lights, n_reflects] of the Tracer that casts
    stack,          \* the cast() invocations in progress, the innermost last
    last,           \* what the last step of cast() saw and returned
    cast_out,       \* [done, color, calls, queries] of the top-level call
    \* TracerBuilder
    builder,        \* the fields of the TracerBuilder
    tracer,         \* <<>>, or <<t>> once build() has returned the Tracer t
    log             \* the builder calls made, in order

vars == <<extent, framebuffer, strategy, n_threads, changed, timer, pc, result,
          k, chunks, tasks, results, m, ret, was_reset, last_op, last_chunk,
          reset_prior,
          pass_chunks, entry, round_remaining, updates, host_reset, written,
          scene, stack, last, cast_out, builder, tracer, log>>

buffer_vars == <<extent, framebuffer, strategy>>
round_vars == <<k, chunks, tasks, results, m>>
hist_vars == <<was_reset, last_op, last_chunk, reset_prior, pass_chunks, entry,
               round_remaining, updates, host_reset, written>>
cast_vars == <<scene, stack, last, cast_out>>
builder_vars == <<builder, tracer, log>>

(***************************************************************************)
(* Helpers.                                                                *)
(***************************************************************************)
Min(a, b) == IF a <= b THEN a ELSE b

DivCeil(a, b) == (a + b - 1) \div b

ExtentSize(e) == e.width * e.height

\* the indices 0 .. n-1 pushed in order
Iota(n) == [i \in 1..n |-> i - 1]

Range(s) == {s[i] : i \in DOMAIN s}

RECURSIVE Flatten(_)
Flatten(ss) == IF ss = <<>> THEN <<>> ELSE Head(ss) \o Flatten(Tail(ss))

\* a clear() that was forgotten
Vec_clear_forgotten(v) == v

\* Vec::clear
Vec_clear(v) == <<>>

(***************************************************************************)
(* slice.shuffle(rng): any permutation of the elements.                    *)
(***************************************************************************)
Perms(n) == {p \in [1..n -> 1..n] : \A i, j \in 1..n : p[i] = p[j] => i = j}

\* s rotated left by r places
Rotation(s, r) == SubSeq(s, r + 1, Len(s)) \o SubSeq(s, 1, r)

Shuffles(s) ==
    IF Len(s) <= MaxShuffle
    THEN {[i \in 1..Len(s) |-> s[p[i]]] : p \in Perms(Len(s))}
    ELSE {Rotation(s, r) : r \in 0..MaxShuffle}

(***************************************************************************)
(* Chunk strategies.                                                       *)
(***************************************************************************)
ChunkStrategy_new(s, e) ==
    CASE s = "RANDOM" -> [tag |-> "RANDOM", draw_indexes |-> <<>>]
      [] s = "LINE"   -> [tag |-> "LINE", draw_indexes |-> <<>>]
      [] s = "BOX"    -> [tag |-> "BOX",
                          cols |-> DivCeil(e.width, BOX_WIDTH),
                          rows |-> DivCeil(e.height, BOX_HEIGHT),
                          draw_boxes |-> <<>>]

\* the set of strategy states RandomChunk::reset may leave
RandomChunk_reset(st, e) ==
    {[st EXCEPT !.draw_indexes = p] :
        p \in Shuffles(Vec_clear(st.draw_indexes) \o Iota(ExtentSize(e)))}

LineChunk_reset(st, e) ==
    {[st EXCEPT !.draw_indexes = Vec_clear(st.draw_indexes) \o Iota(ExtentSize(e))]}

\* a tile that is not clipped to the extent
BoxTile_unclipped(i, j, e) ==
    LET x_min == i * BOX_WIDTH
        y_min == j * BOX_HEIGHT
    IN  [q \in 1..(BOX_WIDTH * BOX_HEIGHT) |->
            (x_min + ((q - 1) \div BOX_HEIGHT)) + (y_min + ((q - 1) % BOX_HEIGHT)) * e.width]

\* the tile of column i and row j, in the order the code pushes its indices
BoxTile(i, j, e) ==
    LET x_min == i * BOX_WIDTH
        x_max == Min(x_min + BOX_WIDTH, e.width)
        y_min == j * BOX_HEIGHT
        y_max == Min(y_min + BOX_HEIGHT, e.height)
        dx == x_max - x_min
        dy == y_max - y_min
    IN  [q \in 1..(dx * dy) |->
            (x_min + ((q - 1) \div dy)) + (y_min + ((q - 1) % dy)) * e.width]

BoxChunk_reset(st, e) ==
    LET tiles == [t \in 1..(st.rows * st.cols) |->
                    BoxTile((t - 1) % st.cols, (t - 1) \div st.cols, e)]
    IN  {[st EXCEPT !.draw_boxes = p] :
            p \in Shuffles(Vec_clear(st.draw_boxes) \o tiles)}

ChunkStrategyData_reset(st, e) ==
    CASE st.tag = "RANDOM" -> RandomChunk_reset(st, e)
      [] st.tag = "LINE"   -> LineChunk_reset(st, e)
      [] st.tag = "BOX"    -> BoxChunk_reset(st, e)

is_complete(st) ==
    CASE st.tag = "RANDOM" -> st.draw_indexes = <<>>
      [] st.tag = "LINE"   -> st.draw_indexes = <<>>
      [] st.tag = "BOX"    -> st.draw_boxes = <<>>

\* a drain of the random strategy that takes the chunk size of the line strategy
RandomChunk_drain_len_line(st) == Min(LineChunk_PIXEL_PER_CHUNK, Len(st.draw_indexes))

\* number of elements drain(0..PIXEL_PER_CHUNK.min(len)) removes
RandomChunk_drain_len(st) == Min(RandomChunk_PIXEL_PER_CHUNK, Len(st.draw_indexes))

LineChunk_drain_len(st) == Min(LineChunk_PIXEL_PER_CHUNK, Len(st.draw_indexes))

\* BoxChunk::get_chunk unwraps the popped box: it panics on an empty list
get_chunk_panics(st) == st.tag = "BOX" /\ st.draw_boxes = <<>>

\* the chunk get_chunk() returns
get_chunk(st) ==
    CASE st.tag = "RANDOM" -> SubSeq(st.draw_indexes, 1, RandomChunk_drain_len(st))
      [] st.tag = "LINE"   -> SubSeq(st.draw_indexes, 1, LineChunk_drain_len(st))
      [] st.tag = "BOX"    -> st.draw_boxes[Len(st.draw_boxes)]

\* a get_chunk() whose drain stops one element short
after_get_chunk_short(st) ==
    CASE st.tag = "RANDOM" ->
            [st EXCEPT !.draw_indexes =
                IF @ = <<>> THEN @ ELSE SubSeq(@, RandomChunk_drain_len(st), Len(@))]
      [] st.tag = "LINE" ->
            [st EXCEPT !.draw_indexes =
                IF @ = <<>> THEN @ ELSE SubSeq(@, LineChunk_drain_len(st), Len(@))]
      [] st.tag = "BOX" ->
            [st EXCEPT !.draw_boxes = SubSeq(st.draw_boxes, 1, Len(st.draw_boxes) - 1)]

\* the strategy get_chunk() leaves
after_get_chunk(st) ==
    CASE st.tag = "RANDOM" ->
            [st EXCEPT !.draw_indexes =
                SubSeq(st.draw_indexes, RandomChunk_drain_len(st) + 1, Len(st.draw_indexes))]
      [] st.tag = "LINE" ->
            [st EXCEPT !.draw_indexes =
                SubSeq(st.draw_indexes, LineChunk_drain_len(st) + 1, Len(st.draw_indexes))]
      [] st.tag = "BOX" ->
            [st EXCEPT !.draw_boxes = SubSeq(st.draw_boxes, 1, Len(st.draw_boxes) - 1)]

(***************************************************************************)
(* Image buffer.                                                           *)
(***************************************************************************)
\* a reset that pushes the black pixels after the old ones
ImageBuffer_reset_framebuffer_append(fb, e) ==
    fb \o [i \in 1..ExtentSize(e) |-> BLACK]

\* the framebuffer ImageBuffer::reset leaves
ImageBuffer_reset_framebuffer(fb, e) ==
    Vec_clear(fb) \o [i \in 1..ExtentSize(e) |-> BLACK]

\* update_pixel indexes the vector: out of bounds panics
update_pixel_panics(fb, idx) == idx >= Len(fb)

update_pixel(fb, idx, c) == [fb EXCEPT ![idx + 1] = c]

\* update_pixel for the entries lo..hi of one result, in order
RECURSIVE apply_range(_, _, _, _)
apply_range(fb, res, lo, hi) ==
    IF lo > hi THEN fb
    ELSE IF lo = hi THEN update_pixel(fb, res[lo][1], res[lo][2])
    ELSE LET mid == (lo + hi) \div 2
             first == apply_range(fb, res, lo, mid)
         IN  \* the first half is written before the second half is looked at
             IF Len(first) >= 0 THEN apply_range(first, res, mid + 1, hi) ELSE fb

apply_result(fb, res) == apply_range(fb, res, 1, Len(res))

(***************************************************************************)
(* Tracer: the computation of one chunk.                                   *)
(***************************************************************************)
\* the averaged shade of pixel idx, for the pool state `seed`
compute_pixel(idx, seed) == (idx + seed) % 3

compute_chunk(chunk, seed) ==
    [i \in 1..Len(chunk) |-> <<chunk[i], compute_pixel(chunk[i], seed)>>]

(***************************************************************************)
(* What the history variables record.                                      *)
(***************************************************************************)
\* the indices the strategy has not delivered yet, in cursor order
Undelivered(st) ==
    IF st.tag = "BOX" THEN Flatten(st.draw_boxes) ELSE st.draw_indexes

\* the number of chunks the strategy still has to deliver
ChunksRemaining(st) ==
    CASE st.tag = "RANDOM" -> DivCeil(Len(st.draw_indexes), RandomChunk_PIXEL_PER_CHUNK)
      [] st.tag = "LINE"   -> DivCeil(Len(st.draw_indexes), LineChunk_PIXEL_PER_CHUNK)
      [] st.tag = "BOX"    -> Len(st.draw_boxes)

PriorOf ==
    IF ~was_reset THEN "never"
    ELSE IF last_op = "reset" THEN "fresh"
    ELSE IF is_complete(strategy) THEN "drained"
    ELSE IF pass_chunks = <<>> THEN "fresh"
    ELSE "partial"

(***************************************************************************)
(* Tracer::cast: colors, hits and the choices cast() makes.                *)
(*                                                                         *)
(* A model is known by what it answers: hit() answers None or a Hit at a   *)
(* distance, with the color and the reflectance of the model; to the light *)
(* ray of a hit, hit_distance() answers None or Some.  For cast() a Color  *)
(* is a whole number of 1/Unit, so that the halvings of MaxReflects nested *)
(* blends are exact; a reflectance is a number of halves.                  *)
(***************************************************************************)
\* cast() is called with limit = n_reflects in 0..MaxReflects
MaxReflects == 2
\* the Tracer has 0..MaxModels models and 0..MaxLights lights
MaxModels == 2
MaxLights == 2
\* a hit lies at a distance 1..MaxDist
MaxDist == 2

Unit == 4 ^ MaxReflects

\* [color, reflect] of a model: matt, glossy, mirror
Materials ==
    {[color |-> Unit, reflect |-> 0],
     [color |-> 2 * Unit, reflect |-> 1],
     [color |-> Unit, reflect |-> 2]}

\* the colors the background function may answer for a ray
Backgrounds == {BLACK, 3 * Unit}

\* hit.color * (1. - hit.reflect) + reflect_color * hit.reflect
Blend(color, reflect, reflect_color) ==
    (color * (2 - reflect) + reflect_color * reflect) \div 2

\* (...) * 0.5
Half(c) == c \div 2

NoHit == [distance |-> 0, color |-> BLACK, reflect |-> 0, model |-> 0]

\* the Hit model i answers at distance d
Hit(models, i, d) ==
    [distance |-> d, color |-> models[i].color, reflect |-> models[i].reflect,
     model |-> i]

\* a min_by that keeps the later of two hits at the same distance
RECURSIVE min_by_last(_, _, _)
min_by_last(hs, i, best) ==
    IF i > Len(hs) THEN best
    ELSE IF hs[i] = 0 THEN min_by_last(hs, i + 1, best)
    ELSE IF best = 0 THEN min_by_last(hs, i + 1, i)
    ELSE IF hs[best] >= hs[i] THEN min_by_last(hs, i + 1, i)
    ELSE min_by_last(hs, i + 1, best)

\* models.iter().filter_map(hit).min_by(distance): hs[i] is the distance model
\* i answers, 0 for None; the fold keeps the hit it holds unless the next one
\* compares strictly nearer.  The value is the index of the hit kept, 0 for None.
RECURSIVE min_by(_, _, _)
min_by(hs, i, best) ==
    IF i > Len(hs) THEN best
    ELSE IF hs[i] = 0 THEN min_by(hs, i + 1, best)
    ELSE IF best = 0 THEN min_by(hs, i + 1, i)
    ELSE IF hs[best] > hs[i] THEN min_by(hs, i + 1, i)
    ELSE min_by(hs, i + 1, best)

\* a loop over the lights that looks at the first light only
first_unblocked_head(bl, j) ==
    IF j > Len(bl) THEN 0
    ELSE IF bl[j] = 0 THEN j
    ELSE 0

\* for light in &self.lights: bl[j] is the model find() answers as the blocker
\* of light j, 0 for None.  The value is the light at which the loop returns,
\* 0 when the loop runs to its end.
RECURSIVE first_unblocked(_, _)
first_unblocked(bl, j) ==
    IF j > Len(bl) THEN 0
    ELSE IF bl[j] = 0 THEN j
    ELSE first_unblocked(bl, j + 1)

\* a cast() that takes a hit for lit when there is no light to look at
shade_lit_without_lights(hit, reflect_color, bl) ==
    IF first_unblocked(bl, 1) # 0 \/ bl = <<>>
    THEN Blend(hit.color, hit.reflect, reflect_color)
    ELSE Half(Blend(hit.color, hit.reflect, reflect_color))

\* the color cast() returns for a hit, once the reflected color is known
shade(hit, reflect_color, bl) ==
    IF first_unblocked(bl, 1) # 0
    THEN Blend(hit.color, hit.reflect, reflect_color)
    ELSE Half(Blend(hit.color, hit.reflect, reflect_color))

\* a cast() invocation that was called and has not run yet; of its hit it
\* reads the color and the reflectance once the nested call has returned
Frame(limit) ==
    [limit |-> limit, phase |-> "enter", color |-> BLACK, reflect |-> 0,
     reflect_color |-> BLACK, out |-> BLACK, nested |-> 0]

NoLast ==
    [op |-> "none", limit |-> 0, hits |-> <<>>, hit |-> NoHit, blockers |-> <<>>,
     reflect_color |-> BLACK, color |-> BLACK]

\* no call of cast() is modelled
NoCast ==
    /\ scene = [models |-> <<>>, n_lights |-> 0, n_reflects |-> 0]
    /\ stack = <<>>
    /\ last = NoLast
    /\ cast_out = [done |-> FALSE, color |-> BLACK, calls |-> 0, queries |-> 0]

(***************************************************************************)
(* TracerBuilder.  A camera, a background function, a light and a model    *)
(* are known by a number; 0 is the camera and the background of new().     *)
(***************************************************************************)
TracerBuilder_new(e) ==
    [extent |-> e, models |-> <<>>, lights |-> <<>>, camera |-> 0, background |-> 0,
     n_rays |-> 10, n_reflects |-> 10, n_threads |-> 1, strategy |-> "BOX"]

\* the builder was consumed before the model starts
NoBuilder ==
    /\ builder = TracerBuilder_new([width |-> 0, height |-> 0])
    /\ tracer = <<>>
    /\ log = <<>>

(***************************************************************************)
(* Initial states: TracerBuilder::build().                                 *)
(***************************************************************************)
Strategies == {"RANDOM", "LINE", "BOX"}

SmallExtents == {[width |-> w, height |-> h] : w \in 0..MaxW, h \in 0..MaxH}

\* extents that make one update() round take several chunks
LargeConfigs ==
    {<<[width |-> 4, height |-> 4], "LINE">>,
     <<[width |-> 1921, height |-> 1], "LINE">>,
     <<[width |-> 129, height |-> 1], "BOX">>,
     <<[width |-> 1, height |-> 129], "BOX">>}

Configs == (SmallExtents \X Strategies) \cup LargeConfigs

\* extents that make a pass of each strategy take several chunks
LargeBufConfigs ==
    {<<[width |-> 4, height |-> 4], "LINE">>,
     <<[width |-> 1921, height |-> 1], "LINE">>,
     <<[width |-> 1920, height |-> 2], "LINE">>,
     <<[width |-> 130, height |-> 128], "BOX">>,
     <<[width |-> 1, height |-> 129], "BOX">>,
     <<[width |-> 129, height |-> 2], "BOX">>,
     <<[width |-> 20001, height |-> 1], "RANDOM">>}

BufConfigs == (SmallExtents \X Strategies) \cup LargeBufConfigs

ImageBuffer_new(e, s) ==
    [extent |-> e, framebuffer |-> <<>>, strategy |-> ChunkStrategy_new(s, e)]

\* the image buffer and the driver's fields of the Tracer build() returns
Tracer_fields(e, s, n) ==
    LET b == ImageBuffer_new(e, s) IN
    /\ extent = b.extent
    /\ framebuffer = b.framebuffer
    /\ strategy = b.strategy
    /\ n_threads = n
    /\ changed = TRUE
    /\ timer = 0
    /\ pc = "idle"
    /\ result = FALSE
    /\ k = 0
    /\ chunks = <<>>
    /\ tasks = <<>>
    /\ results = <<>>
    /\ m = 1
    /\ ret = FALSE
    /\ was_reset = FALSE
    /\ last_op = "new"
    /\ last_chunk = <<>>
    /\ reset_prior = "none"
    /\ pass_chunks = <<>>
    /\ entry = [complete |-> TRUE, changed |-> TRUE, timer |-> 0, remaining |-> 0]
    /\ round_remaining = 0
    /\ updates = 0
    /\ host_reset = FALSE
    /\ written = <<>>

\* the Tracer that TracerBuilder::build() returns
Build(e, s, n) ==
    /\ Tracer_fields(e, s, n)
    /\ NoCast
    /\ NoBuilder

Init == \E c \in Configs, n \in 0..MaxThreads : Build(c[1], c[2], n)

(***************************************************************************)
(* ImageBuffer::reset, as a step of whoever calls it.                      *)
(***************************************************************************)
ImageBuffer_reset ==
    /\ framebuffer' = ImageBuffer_reset_framebuffer(framebuffer, extent)
    /\ strategy' \in ChunkStrategyData_reset(strategy, extent)
    /\ was_reset' = TRUE
    /\ last_op' = "reset"
    /\ reset_prior' = PriorOf
    /\ pass_chunks' = <<>>
    /\ written' = <<>>
    /\ UNCHANGED <<extent, last_chunk>>

EnterUpdate ==
    entry' = [complete |-> is_complete(strategy), changed |-> changed, timer |-> timer,
              remaining |-> ChunksRemaining(strategy)]

(***************************************************************************)
(* Tracer::update                                                          *)
(***************************************************************************)
\* if self.changed { self.reset(); ...
UpdateDirty ==
    /\ pc = "idle"
    /\ changed
    /\ EnterUpdate
    /\ ImageBuffer_reset
    /\ pc' = "u_timer"
    /\ UNCHANGED <<n_threads, changed, timer, result, round_vars, ret,
                   round_remaining, updates, host_reset>>
    /\ UNCHANGED <<cast_vars, builder_vars>>

\* an update() that does not restart the timer
UpdateTimer_skipped ==
    /\ pc = "u_timer"
    /\ pc' = "u_result"
    /\ UNCHANGED <<buffer_vars, n_threads, changed, timer, result, round_vars, ret,
                   hist_vars>>
    /\ UNCHANGED <<cast_vars, builder_vars>>

\* ... self.timer.reset(); }
UpdateTimer ==
    /\ pc = "u_timer"
    /\ timer' = timer + 1
    /\ pc' = "u_result"
    /\ UNCHANGED <<buffer_vars, n_threads, changed, result, round_vars, ret, hist_vars>>
    /\ UNCHANGED <<cast_vars, builder_vars>>

\* an update() that resets the buffer whatever the dirty flag says
UpdateClean_resets ==
    /\ pc = "idle"
    /\ ~changed
    /\ EnterUpdate
    /\ ImageBuffer_reset
    /\ pc' = "u_timer"
    /\ UNCHANGED <<n_threads, changed, timer, result, round_vars, ret,
                   round_remaining, updates, host_reset>>
    /\ UNCHANGED <<cast_vars, builder_vars>>

\* the dirty flag is clear: nothing is reset
UpdateClean ==
    /\ pc = "idle"
    /\ ~changed
    /\ EnterUpdate
    /\ pc' = "u_result"
    /\ UNCHANGED <<buffer_vars, n_threads, changed, timer, result, round_vars, ret,
                   was_reset, last_op, last_chunk, reset_prior, pass_chunks,
                   round_remaining,
                   updates, host_reset, written>>
    /\ UNCHANGED <<cast_vars, builder_vars>>

\* let result = !is_complete(); if !is_complete() { self.update_buffer() ...
UpdateResult ==
    /\ pc = "u_result"
    /\ result' = ~is_complete(strategy)
    /\ IF ~is_complete(strategy)
       THEN /\ pc' = "ub_request"
            /\ k' = 0
            /\ chunks' = <<>>
            /\ round_remaining' = ChunksRemaining(strategy)
       ELSE /\ pc' = "u_return"
            /\ UNCHANGED <<k, chunks, round_remaining>>
    /\ UNCHANGED <<buffer_vars, n_threads, changed, timer, tasks, results, m, ret,
                   was_reset, last_op, last_chunk, reset_prior, pass_chunks, entry,
                   updates,
                   host_reset, written>>
    /\ UNCHANGED <<cast_vars, builder_vars>>

\* an update() that returns is_complete() as read after the round
UpdateReturn_late ==
    /\ pc = "u_return"
    /\ changed' = FALSE
    /\ ret' = ~is_complete(strategy)
    /\ updates' = Min(updates + 1, MaxUpdates)
    /\ pc' = "idle"
    /\ UNCHANGED <<buffer_vars, n_threads, timer, result, round_vars, was_reset,
                   last_op, last_chunk, reset_prior, pass_chunks, entry,
                   round_remaining, host_reset, written>>
    /\ UNCHANGED <<cast_vars, builder_vars>>

\* an update() that leaves the dirty flag set
UpdateReturn_keep_dirty ==
    /\ pc = "u_return"
    /\ ret' = result
    /\ updates' = Min(updates + 1, MaxUpdates)
    /\ pc' = "idle"
    /\ UNCHANGED <<buffer_vars, n_threads, changed, timer, result, round_vars,
                   was_reset, last_op, last_chunk, reset_prior, pass_chunks, entry,
                   round_remaining, host_reset, written>>
    /\ UNCHANGED <<cast_vars, builder_vars>>

\* self.changed = false; result
UpdateReturn ==
    /\ pc = "u_return"
    /\ changed' = FALSE
    /\ ret' = result
    /\ updates' = Min(updates + 1, MaxUpdates)
    /\ pc' = "idle"
    /\ UNCHANGED <<buffer_vars, n_threads, timer, result, round_vars, was_reset,
                   last_op, last_chunk, reset_prior, pass_chunks, entry, round_remaining,
                   host_reset, written>>
    /\ UNCHANGED <<cast_vars, builder_vars>>

(***************************************************************************)
(* Tracer::update_buffer                                                   *)
(***************************************************************************)
\* a request loop that does not look at is_complete()
RequestChunk_unchecked ==
    /\ pc = "ub_request"
    /\ k < n_threads
    /\ k' = k + 1
    /\ IF get_chunk_panics(strategy)
       THEN /\ pc' = "panicked"
            /\ UNCHANGED <<strategy, chunks, pass_chunks, last_op, last_chunk>>
       ELSE /\ chunks' = Append(chunks, get_chunk(strategy))
            /\ strategy' = after_get_chunk(strategy)
            /\ pass_chunks' = Append(pass_chunks, get_chunk(strategy))
            /\ last_op' = "get_chunk"
            /\ last_chunk' = get_chunk(strategy)
            /\ UNCHANGED pc
    /\ UNCHANGED <<extent, framebuffer, n_threads, changed, timer, result, tasks,
                   results, m, ret, was_reset, reset_prior, entry, round_remaining,
                   updates, host_reset, written>>
    /\ UNCHANGED <<cast_vars, builder_vars>>

\* a request loop over 0..=n_threads
RequestChunk_inclusive ==
    /\ pc = "ub_request"
    /\ k <= n_threads
    /\ k' = k + 1
    /\ IF is_complete(strategy)
       THEN UNCHANGED <<strategy, chunks, pass_chunks, last_op, last_chunk, pc>>
       ELSE IF get_chunk_panics(strategy)
       THEN /\ pc' = "panicked"
            /\ UNCHANGED <<strategy, chunks, pass_chunks, last_op, last_chunk>>
       ELSE /\ chunks' = Append(chunks, get_chunk(strategy))
            /\ strategy' = after_get_chunk(strategy)
            /\ pass_chunks' = Append(pass_chunks, get_chunk(strategy))
            /\ last_op' = "get_chunk"
            /\ last_chunk' = get_chunk(strategy)
            /\ UNCHANGED pc
    /\ UNCHANGED <<extent, framebuffer, n_threads, changed, timer, result, tasks,
                   results, m, ret, was_reset, reset_prior, entry, round_remaining,
                   updates, host_reset, written>>
    /\ UNCHANGED <<cast_vars, builder_vars>>

\* one iteration of (0..n_threads).filter_map(...)
RequestChunk ==
    /\ pc = "ub_request"
    /\ k < n_threads
    /\ k' = k + 1
    /\ IF is_complete(strategy)
       THEN UNCHANGED <<strategy, chunks, pass_chunks, last_op, last_chunk, pc>>
       ELSE IF get_chunk_panics(strategy)
       THEN /\ pc' = "panicked"
            /\ UNCHANGED <<strategy, chunks, pass_chunks, last_op, last_chunk>>
       ELSE /\ chunks' = Append(chunks, get_chunk(strategy))
            /\ strategy' = after_get_chunk(strategy)
            /\ pass_chunks' = Append(pass_chunks, get_chunk(strategy))
            /\ last_op' = "get_chunk"
            /\ last_chunk' = get_chunk(strategy)
            /\ UNCHANGED pc
    /\ UNCHANGED <<extent, framebuffer, n_threads, changed, timer, result, tasks,
                   results, m, ret, was_reset, reset_prior, entry, round_remaining,
                   updates, host_reset, written>>
    /\ UNCHANGED <<cast_vars, builder_vars>>

\* a request loop that stops at the first chunk it got
RequestDone_first ==
    /\ pc = "ub_request"
    /\ k = n_threads \/ chunks # <<>>
    /\ tasks' = [t \in DOMAIN chunks |-> "pending"]
    /\ results' = [t \in DOMAIN chunks |-> <<>>]
    /\ pc' = "ub_compute"
    /\ UNCHANGED <<buffer_vars, n_threads, changed, timer, result, k, chunks, m, ret,
                   hist_vars>>
    /\ UNCHANGED <<cast_vars, builder_vars>>

\* .collect(): the chunks of the round are known, one task per chunk
RequestDone ==
    /\ pc = "ub_request"
    /\ k = n_threads
    /\ tasks' = [t \in DOMAIN chunks |-> "pending"]
    /\ results' = [t \in DOMAIN chunks |-> <<>>]
    /\ pc' = "ub_compute"
    /\ UNCHANGED <<buffer_vars, n_threads, changed, timer, result, k, chunks, m, ret,
                   hist_vars>>
    /\ UNCHANGED <<cast_vars, builder_vars>>

\* a task starts: with par_iter in any order, with iter one after the other
TaskStart(t) ==
    /\ pc = "ub_compute"
    /\ tasks[t] = "pending"
    /\ n_threads > 1 \/ \A u \in 1..(t - 1) : tasks[u] = "done"
    /\ tasks' = [tasks EXCEPT ![t] = "running"]
    /\ UNCHANGED <<buffer_vars, n_threads, changed, timer, pc, result, k, chunks,
                   results, m, ret, hist_vars>>
    /\ UNCHANGED <<cast_vars, builder_vars>>

\* a task that writes its pixels into the buffer itself
TaskFinish_writes(t) ==
    /\ pc = "ub_compute"
    /\ tasks[t] = "running"
    /\ \E seed \in 0..MaxSeed :
          /\ results' = [results EXCEPT ![t] = compute_chunk(chunks[t], seed)]
          /\ framebuffer' = apply_result(framebuffer, compute_chunk(chunks[t], seed))
    /\ tasks' = [tasks EXCEPT ![t] = "done"]
    /\ UNCHANGED <<extent, strategy, n_threads, changed, timer, pc, result, k,
                   chunks, m, ret, hist_vars>>
    /\ UNCHANGED <<cast_vars, builder_vars>>

\* compute_chunk returns
TaskFinish(t) ==
    /\ pc = "ub_compute"
    /\ tasks[t] = "running"
    /\ \E seed \in 0..MaxSeed :
          results' = [results EXCEPT ![t] = compute_chunk(chunks[t], seed)]
    /\ tasks' = [tasks EXCEPT ![t] = "done"]
    /\ UNCHANGED <<buffer_vars, n_threads, changed, timer, pc, result, k, chunks, m,
                   ret, hist_vars>>
    /\ UNCHANGED <<cast_vars, builder_vars>>

\* .collect() of the results: every task has returned
ComputeDone ==
    /\ pc = "ub_compute"
    /\ \A t \in DOMAIN tasks : tasks[t] = "done"
    /\ pc' = "ub_merge"
    /\ m' = 1
    /\ UNCHANGED <<buffer_vars, n_threads, changed, timer, result, k, chunks, tasks,
                   results, ret, hist_vars>>
    /\ UNCHANGED <<cast_vars, builder_vars>>

\* for (idx, c) in result { self.image_buffer.update_pixel(idx, c) }
MergeResult ==
    /\ pc = "ub_merge"
    /\ m <= Len(results)
    /\ IF \E i \in DOMAIN results[m] : update_pixel_panics(framebuffer, results[m][i][1])
       THEN /\ pc' = "panicked"
            /\ UNCHANGED <<framebuffer, m, last_op, written>>
       ELSE /\ framebuffer' = apply_result(framebuffer, results[m])
            /\ m' = m + 1
            /\ last_op' = "update_pixel"
            /\ written' = written \o [i \in DOMAIN results[m] |-> results[m][i][1]]
            /\ UNCHANGED pc
    /\ UNCHANGED <<extent, strategy, n_threads, changed, timer, result, k, chunks,
                   tasks, results, ret, was_reset, last_chunk, reset_prior,
                   pass_chunks, entry,
                   round_remaining, updates, host_reset>>
    /\ UNCHANGED <<cast_vars, builder_vars>>

\* a merge loop that stops after the first result
MergeDone_early ==
    /\ pc = "ub_merge"
    /\ m > Len(results) \/ m > 1
    /\ pc' = "u_return"
    /\ k' = 0
    /\ chunks' = <<>>
    /\ tasks' = <<>>
    /\ results' = <<>>
    /\ m' = 1
    /\ UNCHANGED <<buffer_vars, n_threads, changed, timer, result, ret, hist_vars>>
    /\ UNCHANGED <<cast_vars, builder_vars>>

\* update_buffer returns; its locals are dropped
MergeDone ==
    /\ pc = "ub_merge"
    /\ m > Len(results)
    /\ pc' = "u_return"
    /\ k' = 0
    /\ chunks' = <<>>
    /\ tasks' = <<>>
    /\ results' = <<>>
    /\ m' = 1
    /\ UNCHANGED <<buffer_vars, n_threads, changed, timer, result, ret, hist_vars>>
    /\ UNCHANGED <<cast_vars, builder_vars>>

(***************************************************************************)
(* Tracer::reset, called by the host between two update() calls.           *)
(***************************************************************************)
TracerReset ==
    /\ pc = "idle"
    /\ ImageBuffer_reset
    /\ host_reset' = TRUE
    /\ UNCHANGED <<n_threads, changed, timer, pc, result, round_vars, ret, entry,
                   round_remaining, updates>>
    /\ UNCHANGED <<cast_vars, builder_vars>>

Next ==
    \/ UpdateDirty
    \/ UpdateTimer
    \/ UpdateClean
    \/ UpdateResult
    \/ RequestChunk
    \/ RequestDone
    \/ \E t \in DOMAIN tasks : TaskStart(t)
    \/ \E t \in DOMAIN tasks : TaskFinish(t)
    \/ ComputeDone
    \/ MergeResult
    \/ MergeDone
    \/ UpdateReturn
    \/ TracerReset

Spec == Init /\ [][Next]_vars

(***************************************************************************)
(* A host that only calls update(), again and again: every call is made    *)
(* and every step of a call is taken.                                      *)
(***************************************************************************)
UpdNext ==
    \/ UpdateDirty
    \/ UpdateTimer
    \/ UpdateClean
    \/ UpdateResult
    \/ RequestChunk
    \/ RequestDone
    \/ \E t \in DOMAIN tasks : TaskStart(t)
    \/ \E t \in DOMAIN tasks : TaskFinish(t)
    \/ ComputeDone
    \/ MergeResult
    \/ MergeDone
    \/ UpdateReturn

\* a step of the merge loop, by what it does to the loop's position
MergeStep ==
    /\ pc = "ub_merge"
    /\ m <= Len(results)
    /\ m' = m + 1

\* the steps outside the merge loop are taken; the merge loop goes on; it ends
UpdSpec ==
    /\ Init
    /\ [][UpdNext]_vars
    /\ WF_vars(pc # "ub_merge" /\ UpdNext)
    /\ WF_m(MergeStep)
    /\ WF_vars(MergeDone)

(***************************************************************************)
(* The image buffer on its own, driven through its public operations       *)
(* new, reset and get_chunk.                                               *)
(***************************************************************************)
BufInit == \E c \in BufConfigs : Build(c[1], c[2], 1)

BufReset ==
    /\ pc = "idle"
    /\ ImageBuffer_reset
    /\ UNCHANGED <<n_threads, changed, timer, pc, result, round_vars, ret, entry,
                   round_remaining, updates, host_reset>>
    /\ UNCHANGED <<cast_vars, builder_vars>>

\* ImageBuffer::get_chunk, whatever is_complete() says
BufGetChunk ==
    /\ pc = "idle"
    /\ IF get_chunk_panics(strategy)
       THEN /\ pc' = "panicked"
            /\ UNCHANGED <<strategy, pass_chunks, last_op, last_chunk>>
       ELSE /\ strategy' = after_get_chunk(strategy)
            /\ last_chunk' = get_chunk(strategy)
            /\ pass_chunks' = IF get_chunk(strategy) = <<>> THEN pass_chunks
                              ELSE Append(pass_chunks, get_chunk(strategy))
            /\ last_op' = "get_chunk"
            /\ UNCHANGED pc
    /\ UNCHANGED <<extent, framebuffer, n_threads, changed, timer, result, round_vars,
                   ret, was_reset, reset_prior, entry, round_remaining, updates,
                   host_reset, written>>
    /\ UNCHANGED <<cast_vars, builder_vars>>

BufNext ==
    \/ BufReset
    \/ BufGetChunk

BufSpec == BufInit /\ [][BufNext]_vars

(***************************************************************************)
(* Tracer::cast.  One top-level call cast(ray, n_reflects), as             *)
(* compute_pixel makes it, with the nested calls on a stack.  An           *)
(* invocation has its color at once (black, background) or finds a hit,    *)
(* makes the nested call, waits for it and walks the lights; then it       *)
(* returns.                                                                *)
(***************************************************************************)
Scenes ==
    {[models |-> ms, n_lights |-> nl, n_reflects |-> nr] :
        ms \in UNION {[1..n -> Materials] : n \in 0..MaxModels},
        nl \in 0..MaxLights,
        nr \in 0..MaxReflects}

CastInit ==
    /\ Tracer_fields([width |-> 0, height |-> 0], "BOX", 1)
    /\ NoBuilder
    /\ scene \in Scenes
    /\ stack = <<Frame(scene.n_reflects)>>
    /\ last = NoLast
    /\ cast_out = [done |-> FALSE, color |-> BLACK, calls |-> 1, queries |-> 0]

Top == stack[Len(stack)]

\* if limit <= 0 { return Color::BLACK; }
CastBlack ==
    /\ stack # <<>>
    /\ Top.phase = "enter"
    /\ Top.limit <= 0
    /\ stack' = [stack EXCEPT ![Len(stack)].phase = "return", ![Len(stack)].out = BLACK]
    /\ last' = [NoLast EXCEPT !.op = "black", !.limit = Top.limit]
    /\ UNCHANGED <<buffer_vars, n_threads, changed, timer, pc, result, round_vars, ret,
                   hist_vars, scene, cast_out, builder_vars>>

\* no model is hit: None => bg(&ray)
CastMiss ==
    /\ stack # <<>>
    /\ Top.phase = "enter"
    /\ Top.limit > 0
    /\ \E hs \in [1..Len(scene.models) -> 0..MaxDist], bg \in Backgrounds :
          /\ min_by(hs, 1, 0) = 0
          /\ stack' = [stack EXCEPT ![Len(stack)].phase = "return",
                                    ![Len(stack)].out = bg]
          /\ last' = [NoLast EXCEPT !.op = "miss", !.limit = Top.limit, !.hits = hs,
                                    !.color = bg]
    /\ cast_out' = [cast_out EXCEPT !.queries = @ + 1]
    /\ UNCHANGED <<buffer_vars, n_threads, changed, timer, pc, result, round_vars, ret,
                   hist_vars, scene, builder_vars>>

\* the nearest hit: match hit { Some(hit) => ...
CastHit ==
    /\ stack # <<>>
    /\ Top.phase = "enter"
    /\ Top.limit > 0
    /\ \E hs \in [1..Len(scene.models) -> 0..MaxDist] :
          LET i == min_by(hs, 1, 0)
              hit == Hit(scene.models, i, hs[i])
          IN  /\ i # 0
              /\ stack' = [stack EXCEPT ![Len(stack)].phase = "call",
                                        ![Len(stack)].color = hit.color,
                                        ![Len(stack)].reflect = hit.reflect]
              /\ last' = [NoLast EXCEPT !.op = "hit", !.limit = Top.limit, !.hits = hs,
                                        !.hit = hit]
    /\ cast_out' = [cast_out EXCEPT !.queries = @ + 1]
    /\ UNCHANGED <<buffer_vars, n_threads, changed, timer, pc, result, round_vars, ret,
                   hist_vars, scene, builder_vars>>

\* a nested call that passes its own limit on
CastCall_same_limit ==
    /\ stack # <<>>
    /\ Top.phase = "call"
    /\ stack' = [stack EXCEPT ![Len(stack)].phase = "reflect",
                              ![Len(stack)].nested = @ + 1]
                \o <<Frame(Top.limit)>>
    /\ last' = NoLast
    /\ cast_out' = [cast_out EXCEPT !.calls = @ + 1]
    /\ UNCHANGED <<buffer_vars, n_threads, changed, timer, pc, result, round_vars, ret,
                   hist_vars, scene, builder_vars>>

\* self.cast(&ray.reflect(hit.position, hit.normal), limit - 1)
CastCall ==
    /\ stack # <<>>
    /\ Top.phase = "call"
    /\ stack' = [stack EXCEPT ![Len(stack)].phase = "reflect",
                              ![Len(stack)].nested = @ + 1]
                \o <<Frame(Top.limit - 1)>>
    /\ last' = NoLast
    /\ cast_out' = [cast_out EXCEPT !.calls = @ + 1]
    /\ UNCHANGED <<buffer_vars, n_threads, changed, timer, pc, result, round_vars, ret,
                   hist_vars, scene, builder_vars>>

\* the loop over the lights, and the color computed for the hit
CastShade ==
    /\ stack # <<>>
    /\ Top.phase = "lights"
    /\ \E bl \in [1..scene.n_lights -> 0..Len(scene.models)] :
          LET c == shade(Top, Top.reflect_color, bl)
          IN  /\ stack' = [stack EXCEPT ![Len(stack)].phase = "return",
                                        ![Len(stack)].out = c]
              /\ last' = [NoLast EXCEPT !.op = "shade", !.limit = Top.limit,
                                        !.hit.color = Top.color,
                                        !.hit.reflect = Top.reflect,
                                        !.blockers = bl,
                                        !.reflect_color = Top.reflect_color,
                                        !.color = c]
    /\ UNCHANGED <<buffer_vars, n_threads, changed, timer, pc, result, round_vars, ret,
                   hist_vars, scene, cast_out, builder_vars>>

\* the innermost invocation returns: to compute_pixel, or to the invocation
\* that waits for its reflect_color
CastReturn ==
    /\ stack # <<>>
    /\ Top.phase = "return"
    /\ IF Len(stack) = 1
       THEN /\ stack' = <<>>
            /\ cast_out' = [cast_out EXCEPT !.done = TRUE, !.color = Top.out]
       ELSE /\ stack' = [SubSeq(stack, 1, Len(stack) - 1) EXCEPT
                            ![Len(stack) - 1].phase = "lights",
                            ![Len(stack) - 1].reflect_color = Top.out]
            /\ UNCHANGED cast_out
    /\ last' = NoLast
    /\ UNCHANGED <<buffer_vars, n_threads, changed, timer, pc, result, round_vars, ret,
                   hist_vars, scene, builder_vars>>

CastNext ==
    \/ CastBlack
    \/ CastMiss
    \/ CastHit
    \/ CastCall
    \/ CastShade
    \/ CastReturn

CastSpec == CastInit /\ [][CastNext]_vars

(***************************************************************************)
(* TracerBuilder: new(extent), the chained calls, build().  Every method   *)
(* takes the builder by value and returns it; build() consumes it.         *)
(***************************************************************************)
\* at most MaxCalls methods are chained between new() and build()
MaxCalls == 3

\* the cameras, backgrounds, lights and models the host passes; the numbers
\* of rays, reflections and threads it asks for
Items == {1, 2}

BuilderExtents == {[width |-> 1, height |-> 1], [width |-> 2, height |-> 1]}

tracer_vars == <<buffer_vars, n_threads, changed, timer, pc, result, round_vars, ret,
                 hist_vars>>

BuilderInit ==
    /\ Tracer_fields([width |-> 0, height |-> 0], "BOX", 1)
    /\ NoCast
    /\ \E e \in BuilderExtents : builder = TracerBuilder_new(e)
    /\ tracer = <<>>
    /\ log = <<>>

\* the builder is still there, and the chain may go on
Chained(op, arg) ==
    /\ tracer = <<>>
    /\ Len(log) < MaxCalls
    /\ log' = Append(log, [op |-> op, arg |-> arg])
    /\ UNCHANGED <<tracer, tracer_vars, cast_vars>>

TracerBuilder_background ==
    \E background \in Items :
        /\ Chained("background", background)
        /\ builder' = [builder EXCEPT !.background = background]

TracerBuilder_camera ==
    \E camera \in Items :
        /\ Chained("camera", camera)
        /\ builder' = [builder EXCEPT !.camera = camera]

\* a light() that keeps the new light only
TracerBuilder_light_replaces ==
    \E light \in Items :
        /\ Chained("light", light)
        /\ builder' = [builder EXCEPT !.lights = <<light>>]

TracerBuilder_light ==
    \E light \in Items :
        /\ Chained("light", light)
        /\ builder' = [builder EXCEPT !.lights = Append(@, light)]

TracerBuilder_model ==
    \E model \in Items :
        /\ Chained("model", model)
        /\ builder' = [builder EXCEPT !.models = Append(@, model)]

TracerBuilder_rays ==
    \E rays \in Items :
        /\ Chained("rays", rays)
        /\ builder' = [builder EXCEPT !.n_rays = rays]

TracerBuilder_reflects ==
    \E reflects \in Items :
        /\ Chained("reflects", reflects)
        /\ builder' = [builder EXCEPT !.n_reflects = reflects]

TracerBuilder_threads ==
    \E threads \in Items :
        /\ Chained("threads", threads)
        /\ builder' = [builder EXCEPT !.n_threads = threads]

TracerBuilder_strategy ==
    \E s \in Strategies :
        /\ Chained("strategy", s)
        /\ builder' = [builder EXCEPT !.strategy = s]

TracerBuilder_build ==
    /\ tracer = <<>>
    /\ tracer' = <<[image_buffer |-> ImageBuffer_new(builder.extent, builder.strategy),
                    models |-> builder.models,
                    lights |-> builder.lights,
                    camera |-> builder.camera,
                    background |-> builder.background,
                    n_rays |-> builder.n_rays,
                    n_reflects |-> builder.n_reflects,
                    n_threads |-> builder.n_threads,
                    changed |-> TRUE,
                    timer |-> 0]>>
    /\ UNCHANGED <<builder, log, tracer_vars, cast_vars>>

BuilderNext ==
    \/ TracerBuilder_background
    \/ TracerBuilder_camera
    \/ TracerBuilder_light
    \/ TracerBuilder_model
    \/ TracerBuilder_rays
    \/ TracerBuilder_reflects
    \/ TracerBuilder_threads
    \/ TracerBuilder_strategy
    \/ TracerBuilder_build

BuilderSpec == BuilderInit /\ [][BuilderNext]_vars

(***************************************************************************)
(* Properties.                                                             *)
(***************************************************************************)
Indices(e) == 0..(ExtentSize(e) - 1)

NoDuplicates(s) == Cardinality(Range(s)) = Len(s)

\* the indices delivered since the last reset, in order of delivery
Delivered == Flatten(pass_chunks)

NonZero(e) == e.width > 0 /\ e.height > 0

\* C1: in a pass (reset(), then get_chunk() until is_complete()), no index is
\* delivered twice, and once the strategy is complete the indices delivered
\* are exactly 0 .. width*height-1, for every strategy variant.
C1_PartitionComplete ==
    was_reset =>
        /\ NoDuplicates(Delivered)
        /\ is_complete(strategy) => Range(Delivered) = Indices(extent)

\* a pass of the Random strategy that took two chunks is complete
C1_Witness ==
    /\ was_reset
    /\ strategy.tag = "RANDOM"
    /\ is_complete(strategy)
    /\ Len(pass_chunks) = 2

\* the k-th row of the grid, in buffer order
Row(e, j) == [i \in 1..e.width |-> (j - 1) * e.width + i - 1]

\* C2, as stated: update() returns true exactly when the buffer had
\* undelivered work when the call was entered.
C2_TrueIffWorkAtEntry ==
    (pc = "idle" /\ updates >= 1) => (ret = ~entry.complete)

\* C2, amended: update() returns true exactly when the buffer has undelivered
\* work once a set dirty flag has reset it: with the flag set, when the extent
\* has pixels; with the flag clear, when work was undelivered at entry.  So
\* the call that completes the buffer returns true, and a call on a complete
\* buffer with the flag clear returns false.
C2_TrueIffWorkAfterReset ==
    (pc = "idle" /\ updates >= 1) =>
        ret = (IF entry.changed THEN ExtentSize(extent) > 0 ELSE ~entry.complete)

\* a call entered with the flag set and nothing undelivered completed the
\* buffer and returned true
C2_Witness ==
    /\ pc = "idle"
    /\ ret = TRUE
    /\ entry.changed
    /\ entry.complete
    /\ is_complete(strategy)
    /\ was_reset

\* C3: an update() entered with the dirty flag set has reset the buffer (every
\* pixel black, the strategy freshly partitioned, nothing delivered) and
\* restarted the timer when it comes to read is_complete(); and the dirty
\* flag is clear whenever update() has returned.
C3_DirtyResetFirst ==
    /\ (pc = "u_result" /\ entry.changed) =>
          /\ framebuffer = [i \in 1..ExtentSize(extent) |-> BLACK]
          /\ last_op = "reset"
          /\ pass_chunks = <<>>
          /\ Range(Undelivered(strategy)) = Indices(extent)
          /\ NoDuplicates(Undelivered(strategy))
          /\ timer = entry.timer + 1
    /\ (pc = "idle" /\ updates >= 1) => ~changed

\* a dirty update() of a buffer the host had already reset is about to read
\* is_complete()
C3_Witness ==
    /\ pc = "u_result"
    /\ entry.changed
    /\ ~entry.complete
    /\ NonZero(extent)

Cfg4x4 ==
    /\ extent = [width |-> 4, height |-> 4]
    /\ n_threads = 1
    /\ strategy.tag = "LINE"
    /\ ~host_reset

\* C4: for extent 4x4, one thread and the Line strategy, the first update()
\* returns with the buffer complete, and the second update() changes no
\* pixel and returns false.
C4_TwoUpdates ==
    [][Cfg4x4 =>
        /\ (updates = 0 /\ pc = "u_return") => is_complete(strategy')
        /\ (updates = 1 /\ ~host_reset') =>
              /\ framebuffer' = framebuffer
              /\ (pc = "u_return" /\ pc' = "idle") => ret' = FALSE]_vars

\* the second update() has returned false, the 16 pixels as the first left them
C4_Witness ==
    /\ Cfg4x4
    /\ updates = 2
    /\ pc = "idle"
    /\ ret = FALSE
    /\ is_complete(strategy)
    /\ Len(framebuffer) = 16
    /\ \E i \in DOMAIN framebuffer : framebuffer[i] # BLACK

AnyRunning == \E t \in DOMAIN tasks : tasks[t] = "running"

AnyStarted == \E t \in DOMAIN tasks : tasks[t] # "pending"

AllDone == \A t \in DOMAIN tasks : tasks[t] = "done"

\* C5: while a chunk task runs, neither the framebuffer nor the strategy's
\* cursor changes; the cursor moves (get_chunk) only before the first task of
\* the round starts, and pixels are written (update_pixel) only when every
\* task of the round has finished.
C5_SingleWriterBarrier ==
    [][/\ AnyRunning => (framebuffer' = framebuffer /\ strategy' = strategy)
       /\ strategy' # strategy => ~AnyStarted
       /\ framebuffer' # framebuffer => AllDone]_vars

\* two tasks of one round run at the same time
C5_Witness ==
    \E t, u \in DOMAIN tasks : t # u /\ tasks[t] = "running" /\ tasks[u] = "running"

\* C6: a round requests min(n_threads, chunks undelivered at its start)
\* chunks, none once the buffer is complete, and has one task and one result
\* per requested chunk, the result holding that chunk's indices.
C6_ChunksPerRound ==
    /\ pc = "ub_request" =>
          /\ k <= n_threads
          /\ Len(chunks) = Min(k, round_remaining)
          /\ ChunksRemaining(strategy) = round_remaining - Len(chunks)
    /\ pc \in {"ub_compute", "ub_merge"} =>
          /\ Len(chunks) = Min(n_threads, round_remaining)
          /\ DOMAIN tasks = DOMAIN chunks
          /\ DOMAIN results = DOMAIN chunks
    /\ pc = "ub_merge" =>
          \A t \in DOMAIN chunks :
              [i \in DOMAIN results[t] |-> results[t][i][1]] = chunks[t]

\* the request loop stopped before n_threads chunks: the buffer was complete
C6_Witness ==
    /\ pc = "ub_merge"
    /\ Len(chunks) >= 1
    /\ Len(chunks) < n_threads
    /\ is_complete(strategy)

\* C7: with the Line strategy the k-th chunk of a pass is exactly row k of the
\* grid: width contiguous indices in ascending order.
C7_LineChunkIsRow ==
    (was_reset /\ strategy.tag = "LINE") =>
        \A j \in DOMAIN pass_chunks : pass_chunks[j] = Row(extent, j)

\* the pixels of the tile of column i and row j, clipped to the extent
TilePixels(e, i, j) ==
    {x + y * e.width :
        x \in (i * BOX_WIDTH)..(Min((i + 1) * BOX_WIDTH, e.width) - 1),
        y \in (j * BOX_HEIGHT)..(Min((j + 1) * BOX_HEIGHT, e.height) - 1)}

ExpectedTiles(e) ==
    {TilePixels(e, i, j) : i \in 0..(DivCeil(e.width, BOX_WIDTH) - 1),
                           j \in 0..(DivCeil(e.height, BOX_HEIGHT) - 1)}

\* C8: with the Box strategy reset() makes ceil(width/128) x ceil(height/128)
\* tiles of 128 x 128 pixels clipped to the extent, and each get_chunk()
\* delivers one whole tile; extent 130 x 128 gives two tiles, of 128*128 and
\* 2*128 indices, whose union is the full index set.
C8_BoxTiling ==
    (was_reset /\ strategy.tag = "BOX") =>
        LET all == pass_chunks \o strategy.draw_boxes
            pixels == [t \in DOMAIN all |-> Range(all[t])]
        IN
        /\ Len(all) = DivCeil(extent.width, BOX_WIDTH) * DivCeil(extent.height, BOX_HEIGHT)
        /\ Range(pixels) = ExpectedTiles(extent)
        /\ Cardinality(Range(pixels)) = Len(all)
        /\ \A t \in DOMAIN all : Cardinality(pixels[t]) = Len(all[t])
        /\ extent = [width |-> 130, height |-> 128] =>
              /\ {Len(all[t]) : t \in DOMAIN all} = {128 * 128, 2 * 128}
              /\ UNION Range(pixels) = Indices(extent)

\* both tiles of extent 130 x 128 were delivered
C8_Witness ==
    /\ was_reset
    /\ strategy.tag = "BOX"
    /\ extent = [width |-> 130, height |-> 128]
    /\ Len(pass_chunks) = 2
    /\ is_complete(strategy)

\* C9: for a nonzero extent, right after reset(), whatever the state before
\* (never reset, partially drained, drained, or just reset), is_complete() is
\* false and the undelivered indices are each index once: so a second reset
\* in a row leaves the same set of undelivered indices as the first.
C9_ResetFresh ==
    (last_op = "reset" /\ NonZero(extent)) =>
        /\ ~is_complete(strategy)
        /\ pass_chunks = <<>>
        /\ Range(Undelivered(strategy)) = Indices(extent)
        /\ NoDuplicates(Undelivered(strategy))

\* reset() was called on a partially drained strategy
C9_Witness ==
    /\ last_op = "reset"
    /\ NonZero(extent)
    /\ reset_prior = "partial"

\* C10, as stated: the framebuffer is as long as the extent in every state,
\* also right after ImageBuffer::new / TracerBuilder::build.
C10_LengthAlways == Len(framebuffer) = ExtentSize(extent)

\* C10, amended: the framebuffer is empty until the first reset(), and as
\* long as the extent from then on.
C10_LengthOnceReset ==
    IF was_reset THEN Len(framebuffer) = ExtentSize(extent) ELSE framebuffer = <<>>

\* the buffer of a nonzero extent was reset by update() and again by the host
C10_Witness ==
    /\ was_reset
    /\ host_reset
    /\ updates >= 1
    /\ last_op = "reset"
    /\ ExtentSize(extent) > 0

(***************************************************************************)
(* Properties of Tracer::cast.                                             *)
(***************************************************************************)
\* the lights of the last hit that no model blocks
Unblocked(bl) == {j \in DOMAIN bl : bl[j] = 0}

\* C11: when cast() finds a hit, it returns the full-weight blend
\* local*(1-reflect) + reflection*reflect if at least one light has no model
\* blocking it, wherever that light stands in the list and however many other
\* lights are blocked, and the same blend scaled by 0.5 only if every light is
\* blocked; with two lights of which exactly one is occluded the full-weight
\* blend is returned whichever of the two comes first.
C11_AnyLightLit ==
    last.op = "shade" =>
        LET blend == Blend(last.hit.color, last.hit.reflect, last.reflect_color)
        IN  last.color = IF Unblocked(last.blockers) # {} THEN blend ELSE Half(blend)

\* two lights, the first occluded, the second not: the full blend, not its half
C11_Witness ==
    /\ last.op = "shade"
    /\ Len(last.blockers) = 2
    /\ last.blockers[1] # 0
    /\ last.blockers[2] = 0
    /\ last.reflect_color > 0
    /\ last.hit.reflect = 1
    /\ last.color = Blend(last.hit.color, last.hit.reflect, last.reflect_color)
    /\ last.color # Half(last.color)

\* steps the invocation f can still take, the nested invocations included
Weight(f) ==
    CASE f.phase = "enter"   -> 5 * f.limit + 2
      [] f.phase = "call"    -> 5 * f.limit + 1
      [] f.phase = "reflect" -> 3
      [] f.phase = "lights"  -> 2
      [] f.phase = "return"  -> 1

RECURSIVE Measure(_)
Measure(st) == IF st = <<>> THEN 0 ELSE Weight(Head(st)) + Measure(Tail(st))

C12_Inv ==
    \* the nested invocations have the limits n_reflects, n_reflects - 1, ...,
    \* and only an invocation that found a hit has a nested one, and only one
    /\ stack # <<>> => stack[1].limit = scene.n_reflects
    /\ \A i \in DOMAIN stack : stack[i].nested <= 1
    /\ \A i \in 1..(Len(stack) - 1) :
          /\ stack[i].phase = "reflect"
          /\ stack[i].limit > 0
          /\ stack[i].nested = 1
          /\ stack[i + 1].limit = stack[i].limit - 1
    \* at most n_reflects invocations query the models
    /\ cast_out.queries <= scene.n_reflects
    /\ cast_out.calls <= scene.n_reflects + 1
    \* a miss returns the background and has no nested call
    /\ last.op = "miss" =>
          Top.phase = "return" /\ Top.out = last.color /\ Top.out \in Backgrounds
          /\ Top.nested = 0
    /\ last.op = "black" => Top.phase = "return" /\ Top.out = BLACK /\ Top.nested = 0

C12_Step ==
    \* limit == 0: black, without a query of the models and without a call
    /\ (stack # <<>> /\ Top.phase = "enter" /\ Top.limit = 0) =>
          /\ cast_out' = cast_out
          /\ Len(stack') = Len(stack)
          /\ stack'[Len(stack)].phase = "return"
          /\ stack'[Len(stack)].out = BLACK
    \* a nested call is made for a hit only, with limit - 1
    /\ Len(stack') > Len(stack) =>
          /\ last.op = "hit"
          /\ stack' = [stack EXCEPT ![Len(stack)].phase = "reflect",
                                    ![Len(stack)].nested = 1]
                      \o <<Frame(Top.limit - 1)>>
    \* every step brings the top-level call nearer to its return
    /\ Measure(stack') < Measure(stack)

\* C12: cast(ray, limit) returns black without querying any model when
\* limit == 0; otherwise it makes at most one nested call, with limit - 1, and
\* only when a hit is found.  So a top-level cast(ray, n_reflects) terminates,
\* at most n_reflects of its invocations query the models, and it stops
\* recursing at the first ray that hits nothing, returning the background.
C12_BoundedRecursion == []C12_Inv /\ [][C12_Step]_vars

\* a call that recursed down to limit 0, and returned
C12_Witness ==
    /\ cast_out.done
    /\ scene.n_reflects >= 2
    /\ cast_out.queries = scene.n_reflects
    /\ cast_out.calls = scene.n_reflects + 1

(***************************************************************************)
(* Properties of the image buffer and of update(), continued.              *)
(***************************************************************************)
C13_Sizes ==
    (strategy.tag = "RANDOM" /\ was_reset) =>
        /\ \A j \in 1..(Len(pass_chunks) - 1) : Len(pass_chunks[j]) = 20000
        /\ pass_chunks # <<>> =>
              Len(pass_chunks[Len(pass_chunks)]) \in 1..20000
        /\ Len(Delivered) + Len(strategy.draw_indexes) = ExtentSize(extent)

C13_Step ==
    (strategy.tag = "RANDOM" /\ last_op' = "get_chunk") =>
        /\ Len(last_chunk') = Min(20000, Len(strategy.draw_indexes))
        /\ Len(strategy'.draw_indexes) =
              Len(strategy.draw_indexes) - Len(last_chunk')
        /\ is_complete(strategy) => last_chunk' = <<>>

\* C13: with the Random strategy every get_chunk() returns exactly
\* min(20000, number of indices still undelivered) indices, so all chunks of a
\* pass have 20000 indices except possibly the last; a get_chunk() on a
\* completed strategy returns an empty chunk.
C13_RandomChunkSize == []C13_Sizes /\ [][C13_Step]_vars

\* a pass of 20001 pixels: chunks of 20000 and of 1, then an empty chunk
C13_Witness ==
    /\ strategy.tag = "RANDOM"
    /\ was_reset
    /\ Len(pass_chunks) = 2
    /\ Len(pass_chunks[1]) = 20000
    /\ Len(pass_chunks[2]) = 1
    /\ last_op = "get_chunk"
    /\ last_chunk = <<>>

(***************************************************************************)
(* Properties of TracerBuilder.                                            *)
(***************************************************************************)
\* the arguments of the calls of method op, in call order
RECURSIVE ArgsOf(_, _)
ArgsOf(op, lg) ==
    IF lg = <<>> THEN <<>>
    ELSE (IF Head(lg).op = op THEN <<Head(lg).arg>> ELSE <<>>) \o ArgsOf(op, Tail(lg))

\* the argument of the last call of method op, or dflt when it was not called
LastOf(op, dflt) ==
    LET args == ArgsOf(op, log)
    IN  IF args = <<>> THEN dflt ELSE args[Len(args)]

\* the fields the chained calls in log must have left, from the fields of new()
Expected(b0) ==
    [extent |-> b0.extent,
     models |-> ArgsOf("model", log),
     lights |-> ArgsOf("light", log),
     camera |-> LastOf("camera", b0.camera),
     background |-> LastOf("background", b0.background),
     n_rays |-> LastOf("rays", b0.n_rays),
     n_reflects |-> LastOf("reflects", b0.n_reflects),
     n_threads |-> LastOf("threads", b0.n_threads),
     strategy |-> LastOf("strategy", b0.strategy)]

\* C14: on TracerBuilder the calls of light() and model() accumulate: the
\* Tracer holds all the lights and all the models passed, in call order, none
\* replaced or dropped; camera(), background(), rays(), reflects(), threads()
\* and strategy() are last-call-wins and leave the two lists alone.
C14_BuilderAccumulates ==
    /\ builder = Expected(TracerBuilder_new(builder.extent))
    /\ tracer # <<>> =>
          /\ tracer[1].models = ArgsOf("model", log)
          /\ tracer[1].lights = ArgsOf("light", log)
          /\ tracer[1].camera = builder.camera
          /\ tracer[1].background = builder.background
          /\ tracer[1].n_rays = builder.n_rays
          /\ tracer[1].n_reflects = builder.n_reflects
          /\ tracer[1].n_threads = builder.n_threads
          /\ tracer[1].image_buffer.strategy.tag = builder.strategy

\* light(2), threads(2), light(1), build(): both lights, in call order
C14_Witness ==
    /\ tracer # <<>>
    /\ Len(log) = 3
    /\ log[1] = [op |-> "light", arg |-> 2]
    /\ log[2].op = "threads"
    /\ log[3] = [op |-> "light", arg |-> 1]
    /\ tracer[1].lights = <<2, 1>>
    /\ tracer[1].n_threads = log[2].arg

\* between two calls, the buffer complete and the dirty flag clear
Quiet == pc = "idle" /\ is_complete(strategy) /\ ~changed

\* inside an update() that was entered in such a state
QuietCall == pc \notin {"idle", "panicked"} /\ entry.complete /\ ~entry.changed

C15_Step ==
    ((Quiet /\ pc' # "idle") \/ QuietCall) =>
        /\ UNCHANGED <<framebuffer, strategy, changed, timer>>
        /\ UNCHANGED <<pass_chunks, written, last_op, last_chunk>>
        /\ UNCHANGED <<chunks, tasks, results>>
        /\ pc' \in {"u_result", "u_return", "idle"}
        /\ pc' = "idle" => (ret' = FALSE /\ Quiet')

\* C15: once the buffer is complete and the dirty flag is clear, every
\* further update() is a no-op: it requests no chunk, computes no pixel,
\* leaves the framebuffer and the strategy's cursor as they are and returns
\* false; it returns into a state of the same kind, so this holds for any
\* number of update() calls.
C15_CompleteIsStable == [][C15_Step]_vars

\* two no-op calls in a row on a completed picture
C15_Witness ==
    /\ Quiet
    /\ NonZero(extent)
    /\ updates >= 3
    /\ ret = FALSE
    /\ entry.complete
    /\ ~entry.changed
    /\ Range(Delivered) = Indices(extent)
    /\ ~host_reset

\* the models that answered the last query with a hit
Hitting(hs) == {i \in DOMAIN hs : hs[i] # 0}

\* C16: of the hits of the models, cast() takes the one with the smallest
\* distance; when several hits have that distance, the hit of the model that
\* comes first in the model list is used.
C16_NearestFirstOnTies ==
    last.op = "hit" =>
        LET hs == last.hits
            i == last.hit.model
        IN  /\ i \in Hitting(hs)
            /\ \A j \in Hitting(hs) : hs[i] <= hs[j]
            /\ \A j \in Hitting(hs) : hs[j] = hs[i] => i <= j
            /\ last.hit = Hit(scene.models, i, hs[i])
            /\ Top.color = scene.models[i].color
            /\ Top.reflect = scene.models[i].reflect

\* two models of different materials hit at the same distance: the first is used
C16_Witness ==
    /\ last.op = "hit"
    /\ Len(last.hits) = 2
    /\ last.hits[1] = last.hits[2]
    /\ last.hits[1] # 0
    /\ scene.models[1] # scene.models[2]
    /\ last.hit.model = 1
    /\ Top.color = scene.models[1].color

Max(a, b) == IF a >= b THEN a ELSE b

\* the number of chunks of one pass over extent e
PassChunks(e, tag) ==
    CASE tag = "RANDOM" -> DivCeil(ExtentSize(e), 20000)
      [] tag = "LINE"   -> DivCeil(ExtentSize(e), 1920)
      [] tag = "BOX"    -> DivCeil(e.width, 128) * DivCeil(e.height, 128)

\* the number of update() calls that complete a fresh Tracer
Rounds == DivCeil(PassChunks(extent, strategy.tag), n_threads)

\* C17 as stated: each of the first ceil(C / n_threads) calls returns true and
\* leaves fewer undelivered chunks than it found when it was entered, and
\* the buffer is complete after exactly that many calls.
C17_EachCallDecreases ==
    (NonZero(extent) /\ n_threads >= 1 /\ pc = "idle" /\ updates >= 1
        /\ updates <= Rounds) =>
        /\ ret = TRUE
        /\ ChunksRemaining(strategy) < entry.remaining
        /\ is_complete(strategy) <=> updates = Rounds

C17_Counts ==
    (NonZero(extent) /\ n_threads >= 1 /\ pc = "idle" /\ updates >= 1) =>
        LET C == PassChunks(extent, strategy.tag) IN
        /\ ChunksRemaining(strategy) = Max(C - updates * n_threads, 0)
        /\ updates <= Rounds => ret = TRUE
        /\ is_complete(strategy) <=> updates >= Rounds
        \* the first call is entered with nothing to deliver, the others with
        \* what the call before left
        /\ entry.remaining =
              IF updates = 1 THEN 0 ELSE Max(C - (updates - 1) * n_threads, 0)

C17_Completes ==
    (NonZero(extent) /\ n_threads >= 1) =>
        <>(n_threads >= 1 /\ pc = "idle" /\ updates >= Rounds /\ is_complete(strategy))

\* C17: for a nonzero extent, any strategy and n_threads >= 1, a freshly
\* built Tracer driven by repeated update() calls is complete after exactly
\* ceil(C / n_threads) calls, C the number of chunks of one pass; each of
\* those calls returns true; the first call resets and leaves
\* C - min(n_threads, C) chunks undelivered, and each later one leaves
\* strictly fewer than it found.
C17_CompletesInRounds == []C17_Counts /\ C17_Completes

\* two calls were needed, the second one completed the buffer
C17_Witness ==
    /\ NonZero(extent)
    /\ n_threads = 1
    /\ pc = "idle"
    /\ updates = 2
    /\ Rounds = 2
    /\ ret = TRUE
    /\ is_complete(strategy)
    /\ entry.remaining = 1

\* C18: driven through build() and update() calls, the Tracer never panics
\* on a buffer access: get_chunk() is not called while the strategy is
\* complete, so the pop().unwrap() of the Box strategy never fails, not even
\* before the first reset, and every index passed to update_pixel() is
\* smaller than the length of the framebuffer.  (It holds as well when the
\* host calls Tracer::reset() between two update() calls.)
C18_NoPanic ==
    /\ pc # "panicked"
    \* the request about to be made
    /\ (pc = "ub_request" /\ k < n_threads /\ ~is_complete(strategy)) =>
          ~get_chunk_panics(strategy)
    \* no chunk of the round came from a complete strategy
    /\ \A t \in DOMAIN chunks : chunks[t] # <<>>
    /\ \A t \in DOMAIN pass_chunks : pass_chunks[t] # <<>>
    \* the results still to merge
    /\ pc = "ub_merge" =>
          \A j \in m..Len(results) : \A i \in DOMAIN results[j] :
              ~update_pixel_panics(framebuffer, results[j][i][1])

\* the Box strategy ran out of boxes inside the request loop of a round: one
\* chunk for two threads, and its pixels were merged
C18_Witness ==
    /\ strategy.tag = "BOX"
    /\ n_threads = 2
    /\ pc = "ub_merge"
    /\ Len(chunks) = 1
    /\ m = 2
    /\ is_complete(strategy)
    /\ ~host_reset
    /\ last_op = "update_pixel"

\* C19: at the return of every update() the set of pixel indices written by
\* update_pixel() since the last reset of the buffer is the set of indices
\* get_chunk() delivered since that reset, and each of them was written
\* exactly once; so when the buffer is complete after an update() on a
\* nonzero extent, every pixel was written exactly once in the current pass.
C19_WrittenOnce ==
    (pc = "idle" /\ updates >= 1) =>
        /\ Range(written) = Range(Delivered)
        /\ NoDuplicates(written)
        /\ (is_complete(strategy) /\ NonZero(extent) /\ was_reset) =>
              /\ Range(written) = Indices(extent)
              /\ Len(written) = ExtentSize(extent)

\* a pass of two chunks, merged in two calls or in one
C19_Witness ==
    /\ pc = "idle"
    /\ updates >= 1
    /\ is_complete(strategy)
    /\ Len(pass_chunks) = 2
    /\ Len(written) = ExtentSize(extent)
    /\ Range(written) = Indices(extent)
    /\ ~host_reset

\* C20: with n_threads = 0 and a nonzero extent, build() succeeds and the
\* Tracer never makes progress: every update() requests no chunk, writes no
\* pixel and returns true, and from the reset of the first update() on
\* is_complete() is false and stays false.
C20_ZeroThreadsNoProgress ==
    (n_threads = 0 /\ NonZero(extent)) =>
        /\ pc # "panicked"
        /\ chunks = <<>>
        /\ pass_chunks = <<>>
        /\ last_op \in {"new", "reset"}
        /\ written = <<>>
        /\ \A i \in DOMAIN framebuffer : framebuffer[i] = BLACK
        /\ was_reset => ~is_complete(strategy)
        /\ (pc = "idle" /\ updates >= 1) => (ret = TRUE /\ ~is_complete(strategy))

\* three calls returned true, and nothing was delivered
C20_Witness ==
    /\ n_threads = 0
    /\ NonZero(extent)
    /\ pc = "idle"
    /\ updates >= 3
    /\ ret = TRUE
    /\ ~entry.changed
    /\ entry.remaining = ChunksRemaining(strategy)
    /\ ChunksRemaining(strategy) = PassChunks(extent, strategy.tag)
    /\ ~host_reset

\* C21: when cast() finds a hit and the Tracer has no light, the loop over
\* the lights has nothing to return from, and the color returned is the
\* blend scaled by 0.5, not the full-weight blend (the two differ whenever
\* the blend is not black).
C21_NoLightsHalf ==
    (last.op = "shade" /\ scene.n_lights = 0) =>
        LET blend == Blend(last.hit.color, last.hit.reflect, last.reflect_color)
        IN  /\ last.blockers = <<>>
            /\ last.color = Half(blend)
            /\ Top.phase = "return"
            /\ Top.out = Half(blend)
            /\ blend # BLACK => Top.out # blend

\* no light, a glossy hit whose reflected ray brought a color back
C21_Witness ==
    /\ last.op = "shade"
    /\ scene.n_lights = 0
    /\ last.hit.reflect = 1
    /\ last.reflect_color > 0
    /\ Top.out = Half(Blend(last.hit.color, last.hit.reflect, last.reflect_color))
    /\ Top.out # Blend(last.hit.color, last.hit.reflect, last.reflect_color)

=============================================================================
